---- MODULE Spec2Model ----
(***************************************************************************)
(* A model of the REST backend of aiida-workgraph-web-ui: the listing      *)
(* endpoints (datanode.py, workgraph.py), the task / sub-workgraph         *)
(* traversal, the process-control endpoints and the exception handler that *)
(* serves the React index.html (api.py).                                   *)
(*                                                                         *)
(* Text is a sequence of one-character strings, so that LIKE patterns,     *)
(* str.isdigit and int() are computed and not assumed.  Task names are     *)
(* TLA+ strings, concatenated with \o as the f-strings of the code do.     *)
(***************************************************************************)
EXTENDS Integers, Sequences, FiniteSets, TLC

VARIABLES
    dataRows,   \* the Data rows of the database (read through QueryBuilder)
    wgRows,     \* the WorkGraphNode rows of the database
    node,       \* the stored workgraph structures of the one process node
    pc,         \* "idle": waiting for a request, "done": a response is ready
    req,        \* the request being served
    resp,       \* the response the client receives
    calls,      \* the engine control operations issued while serving req
    ret,        \* what the engine call returned or raised
    raised      \* the exception the handler raised, if any

vars == <<dataRows, wgRows, node, pc, req, resp, calls, ret, raised>>

-----------------------------------------------------------------------------
(* Bounds of the model *)

MaxRows == 3
MaxSkip == 3
MaxLimit == 2
MaxItems == 2
MaxQf == 2

(* Query(15, gt=0, le=500) *)
LimitCap == 500
DefaultLimit == 15

-----------------------------------------------------------------------------
(* Text helpers *)

Digits == {"0", "1", "2"}

NoRec == [kind |-> "none"]

Min(a, b) == IF a < b THEN a ELSE b
Max(a, b) == IF a > b THEN a ELSE b

\* Sequences over S of length at most n
SeqsUpTo(S, n) == UNION {[1..k -> S] : k \in 0..n}

\* str.isdigit(): every character a digit and at least one character
IsDigit(v) == Len(v) > 0 /\ \A i \in 1..Len(v) : v[i] \in Digits

DigitVal(c) == CASE c = "0" -> 0 [] c = "1" -> 1 [] c = "2" -> 2

\* int(value) of a string of digits
RECURSIVE IntOf(_)
IntOf(v) ==
    IF Len(v) = 0 THEN 0
    ELSE IntOf(SubSeq(v, 1, Len(v) - 1)) * 10 + DigitVal(v[Len(v)])

\* f"%{value}%"
LikePattern(value) == <<"%">> \o value \o <<"%">>

\* SQL LIKE: "%" matches any run of characters, "_" any one character
RECURSIVE Like(_, _)
Like(pat, s) ==
    IF Len(pat) = 0 THEN Len(s) = 0
    ELSE IF Head(pat) = "%"
         THEN Like(Tail(pat), s) \/ (Len(s) > 0 /\ Like(pat, Tail(s)))
         ELSE /\ Len(s) > 0
              /\ (Head(pat) = "_" \/ Head(pat) = Head(s))
              /\ Like(Tail(pat), Tail(s))

\* value occurs in s as a substring
Contains(s, value) ==
    \E i \in 0..(Len(s) - Len(value)) : SubSeq(s, i + 1, i + Len(value)) = value

CharRank(c) ==
    CASE c = "%" -> 0 [] c = "0" -> 1 [] c = "1" -> 2 [] c = "2" -> 3
      [] c = "_" -> 4 [] c = "a" -> 5 [] c = "b" -> 6

\* s sorts before or with t
RECURSIVE TextLeq(_, _)
TextLeq(s, t) ==
    IF Len(s) = 0 THEN TRUE
    ELSE IF Len(t) = 0 THEN FALSE
    ELSE IF Head(s) = Head(t) THEN TextLeq(Tail(s), Tail(t))
    ELSE CharRank(Head(s)) < CharRank(Head(t))

RECURSIVE Perms(_)
Perms(S) ==
    IF S = {} THEN {<<>>}
    ELSE UNION {{<<x>> \o p : p \in Perms(S \ {x})} : x \in S}

-----------------------------------------------------------------------------
(* Responses *)

\* a handler's return value, rendered as JSON with status 200
Ok(body) == [status |-> 200, media |-> "json", detail |-> <<>>, body |-> body]

\* fastapi's default http_exception_handler: status and detail as JSON
http_exception_handler(exc) ==
    [status |-> exc.status_code, media |-> "json", detail |-> exc.detail,
     body |-> NoRec]

\* FileResponse(f"{build_dir}/index.html", media_type="text/html")
IndexHtml == [status |-> 200, media |-> "html", detail |-> <<>>, body |-> NoRec]

HTTPException(status_code, detail) ==
    [status_code |-> status_code, detail |-> detail]

\* @app.exception_handler(StarletteHTTPException): fastapi.HTTPException is a
\* subclass, so exceptions raised by the API handlers come here too
_spa_server(exc) ==
    IF exc.status_code = 404 THEN IndexHtml ELSE http_exception_handler(exc)

\* an exception that is no HTTPException: the server's 500
ServerError ==
    [status |-> 500, media |-> "text", detail |-> <<"Internal Server Error">>,
     body |-> NoRec]

\* Query(...) validation failed: fastapi's RequestValidationError response
ValidationError ==
    [status |-> 422, media |-> "json", detail |-> <<"validation">>, body |-> NoRec]

\* what a handler ends with: a value, an HTTPException, or another exception
Return(value) == [kind |-> "return", value |-> value]
RaiseHttp(status_code, detail) ==
    [kind |-> "http", value |-> HTTPException(status_code, detail)]
Raise(type) == [kind |-> "error", value |-> type]
Invalid == [kind |-> "invalid", value |-> NoRec]

\* the response the application sends for a handler's outcome
Respond(outcome) ==
    CASE outcome.kind = "return" -> Ok(outcome.value)
      [] outcome.kind = "http" -> _spa_server(outcome.value)
      [] outcome.kind = "invalid" -> ValidationError
      [] OTHER -> ServerError

\* the exception a handler's outcome leaves, NoRec for none
ExceptionOf(outcome) ==
    IF outcome.kind \in {"http", "error"} THEN outcome ELSE NoRec

\* the handler ends: its exception is recorded and its response is sent
Finish(outcome) ==
    /\ raised' = ExceptionOf(outcome)
    /\ resp' = Respond(outcome)

-----------------------------------------------------------------------------
(* Filters handed to QueryBuilder.  A filter is a tree: a "cols" node is a   *)
(* dict column -> constraint, an "and" / "or" node a list of filters.        *)

NoCols == [c \in {} |-> 0]

ColsFilter(cols) == [kind |-> "cols", cols |-> cols, args |-> <<>>]
AndFilter(args) == [kind |-> "and", cols |-> NoCols, args |-> args]
OrFilter(args) == [kind |-> "or", cols |-> NoCols, args |-> args]

\* filters[col] = int(value)
EqInt(n) == [op |-> "==", num |-> n, pat |-> <<>>]
\* {"like": f"%{value}%"}
LikeText(value) == [op |-> "like", num |-> 0, pat |-> LikePattern(value)]

\* dict assignment d[k] = v
Put(d, k, v) == [x \in (DOMAIN d) \cup {k} |-> IF x = k THEN v ELSE d[x]]

\* map DataGrid fields to AiiDA columns
field_map ==
    [pk |-> "id", ctime |-> "ctime", node_type |-> "node_type",
     label |-> "label", description |-> "description"]

\* one turn of the loop over fm["items"]
ApplyItem(filters, item) ==
    IF Len(item.value) = 0 THEN filters
    ELSE IF item.field \notin DOMAIN field_map THEN filters
    ELSE LET col == field_map[item.field] IN
         IF col = "id"
         THEN IF IsDigit(item.value)
              THEN Put(filters, col, EqInt(IntOf(item.value)))
              ELSE filters
         ELSE IF item.operator \in {"contains", "equals", "is"}
              THEN Put(filters, col, LikeText(item.value))
              ELSE filters

RECURSIVE ItemFilters(_, _)
ItemFilters(filters, items) ==
    IF Len(items) = 0 THEN filters
    ELSE ItemFilters(ApplyItem(filters, Head(items)), Tail(items))

\* each value must match at least one column
OrBlock(value) ==
    OrFilter(<<
        IF IsDigit(value)
        THEN ColsFilter([c \in {"id"} |-> EqInt(IntOf(value))])
        ELSE ColsFilter(NoCols),
        ColsFilter([c \in {"node_type"} |-> LikeText(value)]),
        ColsFilter([c \in {"label"} |-> LikeText(value)]),
        ColsFilter([c \in {"description"} |-> LikeText(value)]) >>)

OrBlocksPerValue(qf_values) == [i \in 1..Len(qf_values) |-> OrBlock(qf_values[i])]

\* the blocks joined to the item filters by OR
CombineOr(filters, blocks) ==
    IF DOMAIN filters # {}
    THEN OrFilter(<<ColsFilter(filters)>> \o blocks)
    ELSE OrFilter(blocks)

\* combine with existing filters using AND
CombineFilters(filters, blocks) ==
    IF DOMAIN filters # {}
    THEN AndFilter(<<ColsFilter(filters)>> \o blocks)
    ELSE AndFilter(blocks)

\* the filters of read_datanode_data for a parsed filterModel
DataFilters(fm) ==
    LET filters == ItemFilters(NoCols, fm.items)
        qf_values == fm.quickFilterValues
    IN  IF Len(qf_values) > 0
        THEN CombineFilters(filters, OrBlocksPerValue(qf_values))
        ELSE ColsFilter(filters)

-----------------------------------------------------------------------------
(* QueryBuilder, as the handlers use it *)

\* a filter that builds no SQL expression: an empty dict, or a list of them
RECURSIVE IsEmptyFilter(_)
IsEmptyFilter(f) ==
    IF f.kind = "cols" THEN DOMAIN f.cols = {}
    ELSE \A i \in 1..Len(f.args) : IsEmptyFilter(f.args[i])

ColumnValue(row, col) ==
    CASE col = "id" -> row.pk
      [] col = "ctime" -> row.ctime
      [] col = "node_type" -> row.node_type
      [] col = "label" -> row.label
      [] col = "description" -> row.description
      [] col = "attributes.process_label" -> row.process_label
      [] col = "attributes.process_state" -> row.process_state

TextColumns == {"node_type", "label", "description"}

ColMatch(row, col, c) ==
    IF c.op = "==" THEN ColumnValue(row, col) = c.num
    ELSE col \in TextColumns /\ Like(c.pat, ColumnValue(row, col))

\* the WHERE clause: empty sub-filters are left out of an and / or
RECURSIVE Matches(_, _)
Matches(f, row) ==
    IF f.kind = "cols"
    THEN \A col \in DOMAIN f.cols : ColMatch(row, col, f.cols[col])
    ELSE IF IsEmptyFilter(f) THEN TRUE
    ELSE IF f.kind = "and"
    THEN \A i \in 1..Len(f.args) :
            IsEmptyFilter(f.args[i]) \/ Matches(f.args[i], row)
    ELSE \E i \in 1..Len(f.args) :
            ~IsEmptyFilter(f.args[i]) /\ Matches(f.args[i], row)

\* LIKE on a column that is no text (ctime): the database rejects the query
RECURSIVE QueryFails(_)
QueryFails(f) ==
    IF f.kind = "cols"
    THEN \E col \in DOMAIN f.cols :
            f.cols[col].op = "like" /\ col \notin TextColumns
    ELSE \E i \in 1..Len(f.args) : QueryFails(f.args[i])

Unset == -1

\* qb.append(cls, filters=filters, project=[...])
QbAppend(filters) ==
    [filters |-> filters, col |-> "id", dir |-> "asc",
     offset |-> Unset, limit |-> Unset]
\* qb.order_by({tag: {col: sortOrder}})
QbOrderBy(qb, col, dir) == [qb EXCEPT !.col = col, !.dir = dir]
QbOffset(qb, skip) == [qb EXCEPT !.offset = skip]
QbLimit(qb, limit) == [qb EXCEPT !.limit = limit]

\* attributes.process_state as stored: a state name, or null
NoneState == "None"

\* the order of the stored state names; null sorts last
StateRank(st) ==
    CASE st = "created" -> 1 [] st = "excepted" -> 2 [] st = "finished" -> 3
      [] st = "killed" -> 4 [] st = "running" -> 5 [] st = "waiting" -> 6
      [] st = NoneState -> 7

KeyLeq(col, a, b) ==
    IF col \in {"id", "ctime"} THEN a <= b
    ELSE IF col = "attributes.process_state" THEN StateRank(a) <= StateRank(b)
    ELSE TextLeq(a, b)

InOrder(qb, p) ==
    \A i \in 1..Len(p) : \A j \in (i + 1)..Len(p) :
        IF qb.dir = "asc"
        THEN KeyLeq(qb.col, ColumnValue(p[i], qb.col), ColumnValue(p[j], qb.col))
        ELSE KeyLeq(qb.col, ColumnValue(p[j], qb.col), ColumnValue(p[i], qb.col))

\* the rows of the query in an order the database may return them in: rows
\* with equal sort keys come in any order
QbOrderings(qb, rows) ==
    {p \in Perms({row \in rows : Matches(qb.filters, row)}) : InOrder(qb, p)}

\* OFFSET / LIMIT applied to an ordered result
QbWindow(qb, p) ==
    LET from == IF qb.offset = Unset THEN 0 ELSE qb.offset
        upto == IF qb.limit = Unset THEN Len(p) ELSE Min(Len(p), from + qb.limit)
    IN  SubSeq(p, from + 1, upto)

\* qb.count(): the number of rows of the query as it stands
QbCount(qb, rows) ==
    Len(QbWindow(qb, CHOOSE p \in QbOrderings(qb, rows) : TRUE))

\* qb.all(): the rows of the query as it stands, for the ordering p
QbAll(qb, p) == QbWindow(qb, p)

-----------------------------------------------------------------------------
(* GET /api/datanode-data *)

Txt0 == <<>>
TxtA == <<"a">>
TxtB == <<"b">>
TxtAB == <<"a", "b">>
Txt1 == <<"1">>
TxtB_ == <<"b", "_">>
Txt_ == <<"_">>
Txt10 == <<"1", "0">>

DataRow(pk, ctime, node_type, label, description) ==
    [pk |-> pk, uuid |-> <<"uuid", pk>>, ctime |-> ctime, node_type |-> node_type,
     label |-> label, description |-> description]

\* the Data nodes a profile may hold
DataRowPool ==
    { DataRow(1, 3, TxtA, TxtAB, Txt0),
      DataRow(2, 1, TxtB, Txt1, TxtA),
      DataRow(10, 2, TxtA, Txt0, TxtB_),
      DataRow(12, 2, TxtB, TxtAB, Txt0) }

DataDbs == {db \in SUBSET DataRowPool : Cardinality(db) <= MaxRows}

Item(field, value, operator) ==
    [field |-> field, value |-> value, operator |-> operator]

ItemPool ==
    { Item("pk", Txt10, "="),
      Item("pk", TxtA, "="),
      Item("label", TxtA, "contains"),
      Item("label", Txt0, "contains"),
      Item("description", TxtB, "startsWith"),
      Item("node_type", TxtB, "equals"),
      Item("uuid", TxtA, "contains"),
      Item("ctime", Txt1, "is") }

QfPool == {TxtA, Txt1, Txt_}

\* filterModel: absent, not JSON, or a JSON object
NoFilterModel == [kind |-> "none", items |-> <<>>, quickFilterValues |-> <<>>]
BadFilterModel == [kind |-> "invalid", items |-> <<>>, quickFilterValues |-> <<>>]
FilterModel(items, qf) ==
    [kind |-> "object", items |-> items, quickFilterValues |-> qf]

FilterModels ==
    {NoFilterModel, BadFilterModel} \cup
    {FilterModel(items, qf) :
        items \in SeqsUpTo(ItemPool, MaxItems), qf \in SeqsUpTo(QfPool, MaxQf)}

FewFilterModels ==
    {NoFilterModel, FilterModel(<<>>, <<TxtA>>),
     FilterModel(<<Item("node_type", TxtB, "equals")>>, <<>>)}

ListRequest(endpoint, skip, limit, sortField, sortOrder, filterModel) ==
    [endpoint |-> endpoint, skip |-> skip, limit |-> limit,
     sortField |-> sortField, sortOrder |-> sortOrder, filterModel |-> filterModel]

DataSortFields == {"pk", "ctime", "node_type", "label", "description"}
SortOrders == {"asc", "desc"}

\* every paging with a few filters, and every filter with the default paging
ListRequests(endpoint, sortFields, filterModels, fewFilterModels) ==
    {ListRequest(endpoint, skip, limit, sortField, sortOrder, fm) :
        skip \in (-1)..MaxSkip,
        limit \in (0..MaxLimit) \cup {LimitCap, LimitCap + 1},
        sortField \in sortFields \cup {"uuid"},
        sortOrder \in SortOrders \cup {"ASC"},
        fm \in fewFilterModels}
    \cup
    {ListRequest(endpoint, 0, DefaultLimit, "pk", "desc", fm) : fm \in filterModels}

\* Query(0, ge=0), Query(15, gt=0, le=500), Query(pattern=...)
ValidListParams(r, sortFields) ==
    /\ r.skip >= 0
    /\ r.limit > 0 /\ r.limit <= LimitCap
    /\ r.sortField \in sortFields
    /\ r.sortOrder \in SortOrders

\* utils.time_ago(ctime)
time_ago(ctime) == <<"ago", ctime>>

DataPageRow(row) ==
    [pk |-> row.pk, uuid |-> row.uuid, ctime |-> time_ago(row.ctime),
     node_type |-> row.node_type, label |-> row.label,
     description |-> row.description]

col_map_data ==
    [pk |-> "id", ctime |-> "ctime", node_type |-> "node_type",
     label |-> "label", description |-> "description"]

\* the count taken after the page window is set
DataTotalRowsOfPage(qb, skip, limit, rows) ==
    QbCount(QbLimit(QbOffset(qb, skip), limit), rows)

\* total_rows = qb.count(), taken before qb.offset(skip).limit(limit)
DataTotalRows(qb, skip, limit, rows) == QbCount(qb, rows)

\* the body of read_datanode_data once filterModel is parsed; p is the order
\* the database returns the rows in
DataPage(r, filters, rows, p) ==
    LET qb0 == QbAppend(filters)
        qb1 == QbOrderBy(qb0, col_map_data[r.sortField], r.sortOrder)
        total_rows == DataTotalRows(qb1, r.skip, r.limit, rows)
        qb2 == QbLimit(QbOffset(qb1, r.skip), r.limit)
        all == QbAll(qb2, p)
    IN  Return([total |-> total_rows,
                data |-> [i \in 1..Len(all) |-> DataPageRow(all[i])]])

\* the filters the handler builds: {} without a filterModel
DataRequestFilters(fm) ==
    IF fm.kind = "none" THEN ColsFilter(NoCols) ELSE DataFilters(fm)

ReadDatanodeData ==
    /\ pc = "idle"
    /\ \E r \in ListRequests("datanode-data", DataSortFields,
                             FilterModels, FewFilterModels) :
        /\ req' = r
        /\ IF ~ValidListParams(r, DataSortFields)
           THEN Finish(Invalid)
           ELSE IF r.filterModel.kind = "invalid"
           THEN Finish(RaiseHttp(400, <<"Invalid filterModel JSON">>))
           ELSE LET filters == DataRequestFilters(r.filterModel) IN
                IF QueryFails(filters)
                THEN Finish(Raise("ProgrammingError"))
                ELSE \E p \in QbOrderings(
                        QbOrderBy(QbAppend(filters),
                                  col_map_data[r.sortField], r.sortOrder),
                        dataRows) :
                        Finish(DataPage(r, filters, dataRows, p))
    /\ pc' = "done"
    /\ UNCHANGED <<dataRows, wgRows, node, calls, ret>>

-----------------------------------------------------------------------------
(* GET /api/workgraph-data *)

WgRow(pk, ctime, process_label, process_state, label, description) ==
    [pk |-> pk, uuid |-> <<"uuid", pk>>, ctime |-> ctime, node_type |-> TxtB,
     process_label |-> process_label, process_state |-> process_state,
     process_status |-> Txt0, exit_status |-> 0, exit_message |-> Txt0,
     label |-> label, description |-> description]

\* the WorkGraph nodes a profile may hold; a node stored before the engine
\* has set its state has no attributes.process_state
WgRowPool ==
    { WgRow(1, 3, TxtA, "finished", TxtAB, Txt0),
      WgRow(2, 1, TxtB, "running", Txt1, TxtA),
      WgRow(10, 2, TxtA, NoneState, Txt0, TxtB_),
      WgRow(12, 2, TxtB, "created", TxtAB, Txt0) }

WgDbs == {db \in SUBSET WgRowPool : Cardinality(db) <= MaxRows}

WgSortFields == {"pk", "ctime", "process_label", "state", "label", "description"}

col_map_wg ==
    [pk |-> "id", ctime |-> "ctime",
     process_label |-> "attributes.process_label",
     state |-> "attributes.process_state",
     status |-> "attributes.process_status",
     exit_status |-> "attributes.exit_status",
     exit_message |-> "attributes.exit_message",
     label |-> "label", description |-> "description"]

WgFilterModels ==
    {NoFilterModel, BadFilterModel} \cup
    {FilterModel(items, qf) :
        items \in SeqsUpTo({Item("pk", Txt10, "="), Item("label", TxtA, "contains")}, 1),
        qf \in SeqsUpTo({Txt1}, 1)}

\* utils.translate_datagrid_filter_json: the translation read_datanode_data does
translate_datagrid_filter_json(fm) == DataFilters(fm)

WgRequestFilters(fm) ==
    IF fm.kind = "none" THEN ColsFilter(NoCols)
    ELSE translate_datagrid_filter_json(fm)

\* str.title() of a state name
Title(st) ==
    CASE st = "created" -> "Created" [] st = "excepted" -> "Excepted"
      [] st = "finished" -> "Finished" [] st = "killed" -> "Killed"
      [] st = "running" -> "Running" [] st = "waiting" -> "Waiting"

\* state.title() raises AttributeError when the projected state is None
CanRender(row) == row.process_state # NoneState

WgPageRow(row) ==
    [pk |-> row.pk, uuid |-> row.uuid, ctime |-> time_ago(row.ctime),
     process_label |-> row.process_label, state |-> Title(row.process_state),
     status |-> row.process_status, exit_status |-> row.exit_status,
     exit_message |-> row.exit_message, label |-> row.label,
     description |-> row.description]

\* the body of read_workgraph_data once the filters are translated
WgPage(r, filters, rows, p) ==
    LET qb0 == QbAppend(filters)
        qb1 == QbOrderBy(qb0, col_map_wg[r.sortField], r.sortOrder)
        total_rows == QbCount(qb1, rows)
        qb2 == QbLimit(QbOffset(qb1, r.skip), r.limit)
        all == QbAll(qb2, p)
    IN  IF \A i \in 1..Len(all) : CanRender(all[i])
        THEN Return([total |-> total_rows,
                     data |-> [i \in 1..Len(all) |-> WgPageRow(all[i])]])
        ELSE Raise("AttributeError")

ReadWorkgraphData ==
    /\ pc = "idle"
    /\ \E r \in ListRequests("workgraph-data", WgSortFields,
                             WgFilterModels, {NoFilterModel}) :
        /\ req' = r
        /\ IF ~ValidListParams(r, WgSortFields)
           THEN Finish(Invalid)
           ELSE IF r.filterModel.kind = "invalid"
           THEN Finish(RaiseHttp(400, <<"Invalid filterModel JSON">>))
           ELSE LET filters == WgRequestFilters(r.filterModel) IN
                IF r.sortField \notin DOMAIN col_map_wg
                THEN Finish(Raise("KeyError"))
                ELSE IF QueryFails(filters)
                THEN Finish(Raise("ProgrammingError"))
                ELSE \E p \in QbOrderings(
                        QbOrderBy(QbAppend(filters),
                                  col_map_wg[r.sortField], r.sortOrder),
                        wgRows) :
                        Finish(WgPage(r, filters, wgRows, p))
    /\ pc' = "done"
    /\ UNCHANGED <<dataRows, wgRows, node, calls, ret>>

-----------------------------------------------------------------------------
(* The process node whose tasks are read: workgraph_data, task_executors,    *)
(* task_map_info                                                              *)

MaxChildren == 2
MaxPrefix == 2
MaxLinks == 2

Has(d, k) == k \in DOMAIN d

\* str.upper() of a node type
Upper(t) ==
    CASE t \in {"WORKGRAPH", "workgraph"} -> "WORKGRAPH"
      [] t \in {"MAP", "Map"} -> "MAP"
      [] t \in {"PYTHONJOB", "PythonJob"} -> "PYTHONJOB"

\* a task as workgraph_data stores it (its executor is stored apart)
Task(name, node_type) ==
    [name |-> name, metadata |-> [node_type |-> node_type]]

\* a task inside an executor's graph_data, with its own executor
InnerTask(name, node_type, executor) ==
    [name |-> name, metadata |-> [node_type |-> node_type], executor |-> executor]

Callable == [callable |-> "function"]
GraphExecutor(tasks) ==
    [graph_data |-> [name |-> "graph", uuid |-> "", tasks |-> tasks, links |-> <<>>]]

InnerS2 == InnerTask("s2", "PythonJob", Callable)
InnerS1 == InnerTask("s1", "WORKGRAPH", GraphExecutor([s2 |-> InnerS2]))
InnerXA == InnerTask("x_a", "PythonJob", Callable)

StoredTasks ==
    [wg1 |-> Task("wg1", "workgraph"), map1 |-> Task("map1", "Map"),
     t1 |-> Task("t1", "PythonJob"),
     a |-> Task("a", "PythonJob"), b |-> Task("b", "PythonJob"),
     a_b |-> Task("a_b", "PythonJob")]

StoredExecutors ==
    [wg1 |-> GraphExecutor([s1 |-> InnerS1, x_a |-> InnerXA]),
     t1 |-> Callable, a |-> Callable, b |-> Callable]

Link(from_node, to_node) ==
    [from_node |-> from_node, from_socket |-> "result",
     to_node |-> to_node, to_socket |-> "x"]

ChildPool == {"a", "b", "a_b"}
PrefixPool == {"x", "x_a"}
LinkPool == <<Link("a", "b"), Link("b", "a_b"), Link("t1", "a"), Link("b", "t1")>>

\* lists without repetition
Distinct(q) == \A i, j \in 1..Len(q) : i # j => q[i] # q[j]
DistinctSeqs(S, n) == {q \in SeqsUpTo(S, n) : Len(q) > 0 /\ Distinct(q)}

\* the links of LinkPool at the positions I, in their order
RECURSIVE PickLinks(_, _)
PickLinks(I, k) ==
    IF k > Len(LinkPool) THEN <<>>
    ELSE (IF k \in I THEN <<LinkPool[k]>> ELSE <<>>) \o PickLinks(I, k + 1)

MapInfos ==
    {[children |-> children, prefix |-> prefix, links |-> PickLinks(I, 1)] :
        children \in DistinctSeqs(ChildPool, MaxChildren),
        prefix \in DistinctSeqs(PrefixPool, MaxPrefix),
        I \in {J \in SUBSET (1..Len(LinkPool)) : Cardinality(J) <= MaxLinks}}

NodePk == 1
MissingPk == 2

Nodes ==
    {[pk |-> NodePk, process_label |-> "WorkGraph<demo>",
      workgraph_data |-> [name |-> "demo", tasks |-> StoredTasks],
      task_executors |-> StoredExecutors,
      task_map_info |-> [map1 |-> info]] : info \in MapInfos}

\* utils.node_to_short_json(id, ndata): the rendering of one task
node_to_short_json(id, ndata) ==
    [fn |-> "node_to_short_json", id |-> id, ndata |-> ndata]

\* aiida_workgraph.utils.workgraph_to_short_json(graph_data)
workgraph_to_short_json(gd) ==
    [fn |-> "workgraph_to_short_json", graph_data |-> gd]

\* orm.utils.serialize.deserialize_unsafe: a fresh copy of the stored value
deserialize_unsafe(ndata) == ndata

\* executor if executor else {}
ExecutorOrEmpty(executors, name) ==
    IF Has(executors, name) THEN executors[name] ELSE NoCols

\* f"{prefix}_{child}"
Expanded(prefix, child) == prefix \o "_" \o child

-----------------------------------------------------------------------------
(* GET /api/task/{id}/{path} *)

\* for segment in segments[2:]: ndata = ndata["executor"]["graph_data"]["tasks"][segment]
RECURSIVE Descend(_, _)
Descend(ndata, segments) ==
    IF Len(segments) = 0 THEN Return(ndata)
    ELSE IF ~Has(ndata, "executor") THEN Raise("KeyError")
    ELSE IF ~Has(ndata.executor, "graph_data") THEN Raise("KeyError")
    ELSE IF ~Has(ndata.executor.graph_data.tasks, Head(segments))
         THEN Raise("KeyError")
    ELSE Descend(ndata.executor.graph_data.tasks[Head(segments)], Tail(segments))

\* the first prefix of the inner loop matches and breaks; the loop over the
\* children goes on, so a later matching child replaces an earlier one
RECURSIVE MapScan(_, _, _, _, _)
MapScan(n, map_info, children, s1, ndata) ==
    IF Len(children) = 0 THEN Return(ndata)
    ELSE LET child == Head(children) IN
         IF \E j \in 1..Len(map_info.prefix) : Expanded(map_info.prefix[j], child) = s1
         THEN IF ~Has(n.workgraph_data.tasks, child) THEN Raise("KeyError")
              ELSE MapScan(n, map_info, Tail(children), s1,
                     Put([deserialize_unsafe(n.workgraph_data.tasks[child])
                            EXCEPT !.name = s1],
                         "executor", ExecutorOrEmpty(n.task_executors, child)))
         ELSE MapScan(n, map_info, Tail(children), s1, ndata)

\* the outcomes of node_to_short_json(id, ndata): the rendering; for a task
\* that carries no "executor" entry the lookup of it may also raise KeyError
ShortJsonOutcomes(id, ndata) ==
    {Return(node_to_short_json(id, ndata))}
    \cup (IF Has(ndata, "executor") THEN {} ELSE {Raise("KeyError")})

\* the try block of read_task: the outcomes it can end with
ReadTaskBody(n, id, segments) ==
    IF id # n.pk THEN {Raise("NotExistent")}
    ELSE IF ~Has(n.workgraph_data.tasks, segments[1]) THEN {Raise("KeyError")}
    ELSE
    LET ndata == deserialize_unsafe(n.workgraph_data.tasks[segments[1]])
        node_type == Upper(ndata.metadata.node_type)
    IN  IF Len(segments) = 1
        THEN ShortJsonOutcomes(id,
                Put(ndata, "executor", ExecutorOrEmpty(n.task_executors, segments[1])))
        ELSE IF node_type = "WORKGRAPH"
        THEN IF ~Has(n.task_executors, segments[1]) THEN {Raise("TypeError")}
             ELSE LET executor == n.task_executors[segments[1]] IN
                  IF ~Has(executor, "graph_data") THEN {Raise("KeyError")}
                  ELSE IF ~Has(executor.graph_data.tasks, segments[2])
                       THEN {Raise("KeyError")}
                  ELSE LET found == Descend(executor.graph_data.tasks[segments[2]],
                                            SubSeq(segments, 3, Len(segments)))
                       IN  IF found.kind = "return"
                           THEN ShortJsonOutcomes("None", found.value)
                           ELSE {found}
        ELSE IF node_type = "MAP"
        THEN IF ~Has(n.task_map_info, segments[1]) THEN {Raise("TypeError")}
             ELSE LET map_info == n.task_map_info[segments[1]]
                      found == MapScan(n, map_info, map_info.children,
                                       segments[2], ndata)
                  IN  IF found.kind = "return"
                      THEN ShortJsonOutcomes(id, found.value)
                      ELSE {found}
        ELSE {Raise("UnboundLocalError")}

NotFound(id, path) == <<"Workgraph", id, path, "not found">>

\* except KeyError as e: raise HTTPException(status_code=404, ...)
KeyErrorTo404(outcome, id, path) ==
    IF outcome = Raise("KeyError") THEN RaiseHttp(404, NotFound(id, path))
    ELSE outcome

read_task(n, id, segments) ==
    {KeyErrorTo404(outcome, id, segments) : outcome \in ReadTaskBody(n, id, segments)}

FirstSegments == {"wg1", "map1", "t1", "nope"}
SecondSegments == {"s1", "x_a", "x_a_b", "x_b", "nope"}
ThirdSegments == {"s2", "nope"}

\* path.split("/") of the paths requested
Paths ==
    {<<s0>> : s0 \in FirstSegments}
    \cup {<<s0, s1>> : s0 \in FirstSegments, s1 \in SecondSegments}
    \cup {<<s0, s1, s2>> : s0 \in FirstSegments, s1 \in SecondSegments,
                           s2 \in ThirdSegments}

PathRequests(endpoint) ==
    {[endpoint |-> endpoint, id |-> NodePk, path |-> path] : path \in Paths}
    \cup {[endpoint |-> endpoint, id |-> MissingPk, path |-> <<"wg1">>]}

ReadTask ==
    /\ pc = "idle"
    /\ \E r \in PathRequests("task") :
        /\ req' = r
        /\ \E outcome \in read_task(node, r.id, r.path) : Finish(outcome)
    /\ pc' = "done"
    /\ UNCHANGED <<dataRows, wgRows, node, calls, ret>>

-----------------------------------------------------------------------------
(* GET /api/workgraph/{id}/{path} *)

\* for segment in segments[1:]:
\*     graph_data = graph_data["tasks"][segment]["executor"]["graph_data"]
RECURSIVE DescendGraph(_, _)
DescendGraph(gd, segments) ==
    IF Len(segments) = 0 THEN Return(gd)
    ELSE IF ~Has(gd.tasks, Head(segments)) THEN Raise("KeyError")
    ELSE LET t == gd.tasks[Head(segments)] IN
         IF ~Has(t, "executor") THEN Raise("KeyError")
         ELSE IF ~Has(t.executor, "graph_data") THEN Raise("KeyError")
         ELSE DescendGraph(t.executor.graph_data, Tail(segments))

\* aiida_workgraph.utils.shallow_copy_nested_dict, then new_data["name"] = name
CopyNamed(child_data, name) == [child_data EXCEPT !.name = name]

\* copy tasks: for child in children: for prefix in prefix:
\*     graph_data["tasks"][f"{prefix}_{child}"] = new_data
\* a key written twice keeps the last value written
ExpandTasks(n, map_info) ==
    LET children == map_info.children
        prefix == map_info.prefix
        keys == {Expanded(prefix[j], children[i]) :
                    i \in 1..Len(children), j \in 1..Len(prefix)}
        last(key) == CHOOSE i \in 1..Len(children) :
                        /\ \E j \in 1..Len(prefix) : Expanded(prefix[j], children[i]) = key
                        /\ \A k \in (i + 1)..Len(children) :
                             \A j \in 1..Len(prefix) : Expanded(prefix[j], children[k]) # key
    IN  [key \in keys |->
            CopyNamed(deserialize_unsafe(n.workgraph_data.tasks[children[last(key)]]), key)]

\* one link per prefix, the target always under the first prefix
ExpandLinkMixed(link, prefix) ==
    [j \in 1..Len(prefix) |->
        [from_node |-> Expanded(prefix[j], link.from_node),
         to_node |-> Expanded(prefix[1], link.to_node),
         from_socket |-> link.from_socket, to_socket |-> link.to_socket]]

\* the links one link of map_info expands to: one per prefix, the same prefix
\* at both ends
ExpandLink(link, prefix) ==
    [j \in 1..Len(prefix) |->
        [from_node |-> Expanded(prefix[j], link.from_node),
         to_node |-> Expanded(prefix[j], link.to_node),
         from_socket |-> link.from_socket, to_socket |-> link.to_socket]]

InSeq(x, q) == \E i \in 1..Len(q) : q[i] = x

\* copy links: only the links between two children
RECURSIVE ExpandLinks(_, _)
ExpandLinks(links, map_info) ==
    IF Len(links) = 0 THEN <<>>
    ELSE LET link == Head(links) IN
         (IF InSeq(link.from_node, map_info.children)
             /\ InSeq(link.to_node, map_info.children)
          THEN ExpandLink(link, map_info.prefix)
          ELSE <<>>)
         \o ExpandLinks(Tail(links), map_info)

\* the graph_data the handler builds
SubGraphData(n, id, segments) ==
    IF id # n.pk THEN Raise("NotExistent")
    ELSE IF ~Has(n.workgraph_data.tasks, segments[1]) THEN Raise("KeyError")
    ELSE
    LET ndata == deserialize_unsafe(n.workgraph_data.tasks[segments[1]])
        node_type == Upper(ndata.metadata.node_type)
    IN  IF node_type = "WORKGRAPH"
        THEN IF ~Has(n.task_executors, segments[1]) THEN Raise("TypeError")
             ELSE IF ~Has(n.task_executors[segments[1]], "graph_data")
                  THEN Raise("KeyError")
             ELSE DescendGraph(n.task_executors[segments[1]].graph_data,
                               Tail(segments))
        ELSE IF node_type = "MAP"
        THEN IF ~Has(n.task_map_info, segments[1]) THEN Raise("TypeError")
             ELSE LET map_info == n.task_map_info[segments[1]] IN
                  IF \E i \in 1..Len(map_info.children) :
                        ~Has(n.workgraph_data.tasks, map_info.children[i])
                  THEN Raise("KeyError")
                  ELSE Return([name |-> segments[Len(segments)], uuid |-> "",
                               tasks |-> ExpandTasks(n, map_info),
                               links |-> ExpandLinks(map_info.links, map_info)])
        ELSE Raise("UnboundLocalError")

\* the try block of read_sub_workgraph
ReadSubWorkgraphBody(n, id, segments) ==
    LET built == SubGraphData(n, id, segments) IN
    IF built.kind # "return" THEN built
    ELSE Return([content |-> workgraph_to_short_json(built.value),
                 summary |-> [table |-> <<>>, inputs |-> NoCols, outputs |-> NoCols],
                 parent_workgraphs |-> <<<<n.process_label, id>>>> \o segments,
                 processes_info |-> NoCols])

read_sub_workgraph(n, id, segments) ==
    KeyErrorTo404(ReadSubWorkgraphBody(n, id, segments), id, segments)

ReadSubWorkgraph ==
    /\ pc = "idle"
    /\ \E r \in PathRequests("workgraph") :
        /\ req' = r
        /\ Finish(read_sub_workgraph(node, r.id, r.path))
    /\ pc' = "done"
    /\ UNCHANGED <<dataRows, wgRows, node, calls, ret>>

-----------------------------------------------------------------------------
(* GET /api/datanode/{id} *)

\* load_node raises NotExistent for an unknown pk; only KeyError is caught
ReadDataNodeItemBody(n, id) ==
    IF id # n.pk THEN Raise("NotExistent")
    ELSE Return([attributes |-> n.workgraph_data.name, node_type |-> "process"])

read_data_node_item(n, id) ==
    LET outcome == ReadDataNodeItemBody(n, id) IN
    IF outcome = Raise("KeyError")
    THEN RaiseHttp(404, <<"Data node", id, "not found">>)
    ELSE outcome

ReadDataNodeItem ==
    /\ pc = "idle"
    /\ \E id \in {NodePk, MissingPk} :
        /\ req' = [endpoint |-> "datanode", id |-> id]
        /\ Finish(read_data_node_item(node, id))
    /\ pc' = "done"
    /\ UNCHANGED <<dataRows, wgRows, node, calls, ret>>

-----------------------------------------------------------------------------
(* A path the API does not define: a client-side route of the React app *)

ClientPaths == {"/settings", "/workgraph/1", "/datanode"}

\* the router finds no route and raises StarletteHTTPException(404)
ClientRoute ==
    /\ pc = "idle"
    /\ \E path \in ClientPaths :
        /\ req' = [endpoint |-> "route", path |-> path]
        /\ Finish(RaiseHttp(404, <<"Not Found">>))
    /\ pc' = "done"
    /\ UNCHANGED <<dataRows, wgRows, node, calls, ret>>

-----------------------------------------------------------------------------
(* POST /api/workgraph/tasks/{pause,play,kill}/{id} and                      *)
(* POST /api/workgraph/{pause,play}/{id}                                     *)

\* what an engine control call does: return its message, or raise
Returned(msg) == [kind |-> "return", text |-> msg]
Failed(text) == [kind |-> "raise", text |-> text]
EngineOutcomes ==
    {Returned("sent"), Returned("nothing to do"), Failed("daemon unreachable")}

\* tasks: List[str] = None
NoTasks == [given |-> FALSE, names |-> <<>>]
TaskList(names) == [given |-> TRUE, names |-> names]
TaskLists == {NoTasks, TaskList(<<>>), TaskList(<<"t1">>), TaskList(<<"a", "b">>)}

\* a dispatch that sends every action to pause_tasks
TaskControlOpAlwaysPause(action) ==
    IF action \in {"pause", "play", "kill"} THEN "pause_tasks" ELSE "none"

\* if action == "pause": pause_tasks ... elif "play": play_tasks ... elif "kill"
TaskControlOp(action) ==
    CASE action = "pause" -> "pause_tasks"
      [] action = "play" -> "play_tasks"
      [] action = "kill" -> "kill_tasks"
      [] OTHER -> "none"

\* manage_task_action: the calls it makes and how it ends
manage_task_action(action, id, tasks, engine) ==
    LET op == TaskControlOp(action) IN
    IF op = "none"
    THEN [calls |-> <<>>, ret |-> NoRec,
          outcome |-> RaiseHttp(500, "400: Unsupported action")]
    ELSE [calls |-> <<[op |-> op, id |-> id, tasks |-> tasks]>>,
          ret |-> engine,
          outcome |-> IF engine.kind = "return"
                      THEN Return([message |-> engine.text])
                      ELSE RaiseHttp(500, engine.text)]

\* pause_workgraph_tasks, play_workgraph_tasks, kill_workgraph_tasks
TaskEndpointAction ==
    [pause |-> "pause", play |-> "play", kill |-> "kill"]

ManageTasks ==
    /\ pc = "idle"
    /\ \E which \in DOMAIN TaskEndpointAction, id \in {NodePk, MissingPk},
          tasks \in TaskLists, engine \in EngineOutcomes :
        LET done == manage_task_action(TaskEndpointAction[which], id, tasks, engine)
        IN  /\ req' = [endpoint |-> "tasks", which |-> which, id |-> id, tasks |-> tasks]
            /\ calls' = done.calls
            /\ ret' = done.ret
            /\ Finish(done.outcome)
    /\ pc' = "done"
    /\ UNCHANGED <<dataRows, wgRows, node>>

NotExistentText == "No node found"

\* pause_workgraph / play_workgraph: load the node, then one control call
control_workgraph(n, op, verb, id, engine) ==
    IF id # n.pk
    THEN [calls |-> <<>>, ret |-> NoRec, outcome |-> RaiseHttp(500, NotExistentText)]
    ELSE [calls |-> <<[op |-> op, nodes |-> <<n.pk>>]>>,
          ret |-> engine,
          outcome |-> IF engine.kind = "return"
                      THEN Return([message |-> <<"Send message to", verb, "workgraph", id>>])
                      ELSE RaiseHttp(500, engine.text)]

PauseWorkgraph ==
    /\ pc = "idle"
    /\ \E id \in {NodePk, MissingPk}, engine \in EngineOutcomes :
        LET done == control_workgraph(node, "pause_processes", "pause", id, engine)
        IN  /\ req' = [endpoint |-> "pause", id |-> id]
            /\ calls' = done.calls
            /\ ret' = done.ret
            /\ Finish(done.outcome)
    /\ pc' = "done"
    /\ UNCHANGED <<dataRows, wgRows, node>>

PlayWorkgraph ==
    /\ pc = "idle"
    /\ \E id \in {NodePk, MissingPk}, engine \in EngineOutcomes :
        LET done == control_workgraph(node, "play_processes", "play", id, engine)
        IN  /\ req' = [endpoint |-> "play", id |-> id]
            /\ calls' = done.calls
            /\ ret' = done.ret
            /\ Finish(done.outcome)
    /\ pc' = "done"
    /\ UNCHANGED <<dataRows, wgRows, node>>

\* the response is sent; the server waits for the next request
Complete ==
    /\ pc = "done"
    /\ pc' = "idle"
    /\ req' = NoRec
    /\ resp' = NoRec
    /\ calls' = <<>>
    /\ ret' = NoRec
    /\ raised' = NoRec
    /\ UNCHANGED <<dataRows, wgRows, node>>

NoNode == NoRec

Init ==
    /\ dataRows \in DataDbs
    /\ wgRows = {}
    /\ node = NoNode
    /\ pc = "idle"
    /\ req = NoRec
    /\ resp = NoRec
    /\ calls = <<>>
    /\ ret = NoRec
    /\ raised = NoRec

Next == ReadDatanodeData \/ Complete

Spec == Init /\ [][Next]_vars

InitWg ==
    /\ dataRows = {}
    /\ wgRows \in WgDbs
    /\ node = NoNode
    /\ pc = "idle"
    /\ req = NoRec
    /\ resp = NoRec
    /\ calls = <<>>
    /\ ret = NoRec
    /\ raised = NoRec

NextWg == ReadWorkgraphData \/ Complete

SpecWg == InitWg /\ [][NextWg]_vars

InitNode ==
    /\ dataRows = {}
    /\ wgRows = {}
    /\ node \in Nodes
    /\ pc = "idle"
    /\ req = NoRec
    /\ resp = NoRec
    /\ calls = <<>>
    /\ ret = NoRec
    /\ raised = NoRec

NextNode ==
    \/ ReadTask
    \/ ReadSubWorkgraph
    \/ ReadDataNodeItem
    \/ ClientRoute
    \/ ManageTasks
    \/ PauseWorkgraph
    \/ PlayWorkgraph
    \/ Complete

SpecNode == InitNode /\ [][NextNode]_vars

-----------------------------------------------------------------------------
(* Properties of GET /api/datanode-data *)

DataServed == pc = "done" /\ req.endpoint = "datanode-data"
DataAccepted == DataServed /\ resp.status = 200

\* the rows of the database the request's filter selects
DataSelected ==
    {row \in dataRows : Matches(DataRequestFilters(req.filterModel), row)}

\* the filtered rows in the requested order, as rendered rows
DataSortedViews ==
    LET qb == QbOrderBy(QbAppend(DataRequestFilters(req.filterModel)),
                        col_map_data[req.sortField], req.sortOrder)
    IN  {[i \in 1..Len(p) |-> DataPageRow(p[i])] : p \in QbOrderings(qb, dataRows)}

\* C1: for every accepted request, total is the number of all Data rows that
\* match the filter, whatever skip and limit are, and data is the part of the
\* sorted filtered rows that starts at position skip and holds at most limit
\* rows: len(data) <= limit <= 500 and len(data) <= max(0, total - skip).
C1_PageSliceAndTotal ==
    DataAccepted =>
        LET total == resp.body.total
            data == resp.body.data
        IN  /\ total = Cardinality(DataSelected)
            /\ Len(data) <= req.limit
            /\ req.limit <= LimitCap
            /\ Len(data) <= Max(0, total - req.skip)
            /\ Len(data) = Min(req.limit, Max(0, total - req.skip))
            /\ \E view \in DataSortedViews :
                  \A i \in 1..Len(data) : data[i] = view[req.skip + i]

\* a page from the middle of the result: rows before it and rows after it
C1_Witness ==
    /\ DataAccepted
    /\ req.skip > 0
    /\ Len(resp.body.data) = req.limit
    /\ resp.body.total > req.skip + req.limit

QfValues == req.filterModel.quickFilterValues

\* a row matches a quick-filter value in at least one column
QuickMatch(row, value) ==
    \/ (IsDigit(value) /\ row.pk = IntOf(value))
    \/ Contains(row.node_type, value)
    \/ Contains(row.label, value)
    \/ Contains(row.description, value)

RowOfPk(pk) == CHOOSE row \in dataRows : row.pk = pk

\* C3: every row returned matches every quick-filter value in at least one
\* column: pk == int(value) for a value of digits, or node_type, label or
\* description contains the value.
C3_QuickFilterMatchesAColumn ==
    DataAccepted =>
        \A i \in 1..Len(resp.body.data) : \A k \in 1..Len(QfValues) :
            QuickMatch(RowOfPk(resp.body.data[i].pk), QfValues[k])

\* the item constraints of the request, column by column
ItemConstraints == ItemFilters(NoCols, req.filterModel.items)

MeetsItems(row) ==
    \A col \in DOMAIN ItemConstraints : ColMatch(row, col, ItemConstraints[col])

MeetsQuickFilters(row) ==
    \A k \in 1..Len(QfValues) : Matches(OrBlock(QfValues[k]), row)

\* C4: the filter of the query requires every per-column item constraint and
\* every quick-filter or-block at once; without item filters it is the AND of
\* the or-blocks, without quickFilterValues it is the item filters unchanged.
C4_QuickFiltersAndItems ==
    (DataAccepted /\ req.filterModel.kind = "object") =>
        /\ resp.body.total =
              Cardinality({row \in dataRows : MeetsItems(row) /\ MeetsQuickFilters(row)})
        /\ \A i \in 1..Len(resp.body.data) :
              LET row == RowOfPk(resp.body.data[i].pk)
              IN  MeetsItems(row) /\ MeetsQuickFilters(row)
        /\ (DOMAIN ItemConstraints = {} /\ Len(QfValues) > 0) =>
              DataRequestFilters(req.filterModel) = AndFilter(OrBlocksPerValue(QfValues))
        /\ Len(QfValues) = 0 =>
              DataRequestFilters(req.filterModel) = ColsFilter(ItemConstraints)

\* item filters and quick filters both present, each excluding a row the
\* other one accepts
C4_Witness ==
    /\ DataAccepted
    /\ req.filterModel.kind = "object"
    /\ DOMAIN ItemConstraints # {}
    /\ Len(QfValues) > 0
    /\ resp.body.total > 0
    /\ \E row \in dataRows : MeetsItems(row) /\ ~MeetsQuickFilters(row)
    /\ \E row \in dataRows : ~MeetsItems(row) /\ MeetsQuickFilters(row)

-----------------------------------------------------------------------------
(* Properties of GET /api/workgraph-data *)

WgServed == pc = "done" /\ req.endpoint = "workgraph-data"

\* the request passes parameter validation and its filterModel is usable
WgValid ==
    /\ WgServed
    /\ ValidListParams(req, WgSortFields)
    /\ req.filterModel.kind # "invalid"
    /\ ~QueryFails(WgRequestFilters(req.filterModel))

WgSelected ==
    {row \in wgRows : Matches(WgRequestFilters(req.filterModel), row)}

\* the pks of the filtered rows in the requested order
WgSortedPks ==
    LET qb == QbOrderBy(QbAppend(WgRequestFilters(req.filterModel)),
                        col_map_wg[req.sortField], req.sortOrder)
    IN  {[i \in 1..Len(p) |-> p[i].pk] : p \in QbOrderings(qb, wgRows)}

\* C2: for every request that passes validation the sortField has a column in
\* col_map, total counts all WorkGraph rows matching the filter whatever skip
\* and limit are, and data is the slice of the sorted filtered rows from skip
\* with at most limit rows, every matching row being rendered whatever its
\* stored process state.
C2_WorkgraphDataContract ==
    WgValid =>
        /\ req.sortField \in DOMAIN col_map_wg
        /\ resp.status = 200
        /\ resp.body.total = Cardinality(WgSelected)
        /\ Len(resp.body.data) = Min(req.limit, Max(0, resp.body.total - req.skip))
        /\ \E view \in WgSortedPks :
              \A i \in 1..Len(resp.body.data) :
                  resp.body.data[i].pk = view[req.skip + i]

-----------------------------------------------------------------------------
(* Properties of GET /api/task/{id}/{path} *)

TaskServed == pc = "done" /\ req.endpoint = "task"

\* a task without the executor the handler attaches to it
Strip(t) == [x \in (DOMAIN t) \ {"executor"} |-> t[x]]

\* the task reached by descending tasks[s1] ... [sn], if every segment exists
RECURSIVE Walk(_, _)
Walk(tasks, segments) ==
    IF ~Has(tasks, Head(segments)) THEN {}
    ELSE LET t == tasks[Head(segments)] IN
         IF Len(segments) = 1 THEN {t}
         ELSE IF Has(t, "executor") /\ Has(t.executor, "graph_data")
              THEN Walk(t.executor.graph_data.tasks, Tail(segments))
              ELSE {}

\* the tasks a path denotes: none, one, or (when two prefix/child pairs spell
\* the same name) the children that spell it
Denoted(n, id, path) ==
    IF id # n.pk \/ ~Has(n.workgraph_data.tasks, path[1]) THEN {}
    ELSE LET t == n.workgraph_data.tasks[path[1]]
             node_type == Upper(t.metadata.node_type)
         IN  IF Len(path) = 1 THEN {t}
             ELSE IF node_type = "WORKGRAPH"
             THEN IF Has(n.task_executors, path[1])
                     /\ Has(n.task_executors[path[1]], "graph_data")
                  THEN Walk(n.task_executors[path[1]].graph_data.tasks, Tail(path))
                  ELSE {}
             ELSE IF node_type = "MAP" /\ Len(path) = 2 /\ Has(n.task_map_info, path[1])
             THEN LET info == n.task_map_info[path[1]] IN
                  {[n.workgraph_data.tasks[info.children[i]] EXCEPT !.name = path[2]] :
                     i \in {k \in 1..Len(info.children) :
                             /\ Has(n.workgraph_data.tasks, info.children[k])
                             /\ \E j \in 1..Len(info.prefix) :
                                  Expanded(info.prefix[j], info.children[k]) = path[2]}}
             ELSE {}

\* C8: the handler returns the task the path denotes, or raises the 404
\* 'Workgraph {id}/{path} not found' when the path resolves to no task; it
\* never returns the data of another task.
C8_TaskOrNotFound ==
    TaskServed =>
        IF Denoted(node, req.id, req.path) # {}
        THEN /\ resp.status = 200
             /\ Strip(resp.body.ndata) \in
                    {Strip(t) : t \in Denoted(node, req.id, req.path)}
        ELSE /\ raised.kind = "http"
             /\ raised.value.status_code = 404
             /\ raised.value.detail = NotFound(req.id, req.path)

-----------------------------------------------------------------------------
(* Properties of GET /api/workgraph/{id}/{path} *)

\* a MAP task was expanded and the graph was returned
MapExpanded ==
    /\ pc = "done"
    /\ req.endpoint = "workgraph"
    /\ resp.status = 200
    /\ Has(node.workgraph_data.tasks, req.path[1])
    /\ Upper(node.workgraph_data.tasks[req.path[1]].metadata.node_type) = "MAP"

\* the positions of the links of map_info between two children
InnerLinks(info) ==
    {k \in 1..Len(info.links) :
        /\ InSeq(info.links[k].from_node, info.children)
        /\ InSeq(info.links[k].to_node, info.children)}

\* how many inner links come before position k
InnerBefore(info, k) == Cardinality({m \in InnerLinks(info) : m < k})

\* C7: the expansion of a MAP task is a closed graph: its tasks are exactly
\* the names prefix_child, each named as its key; every link between two
\* children has exactly one expanded link per prefix, with that prefix at both
\* ends and the original sockets; links with an end outside the children are
\* dropped; so every expanded link joins two expanded tasks.  The stored
\* workgraph_data is left as it was.
C7_MapExpansionClosed ==
    [][ MapExpanded' =>
          LET info == node.task_map_info[req'.path[1]]
              gd == resp'.body.content.graph_data
              P == Len(info.prefix)
          IN  /\ DOMAIN gd.tasks =
                    {Expanded(info.prefix[j], info.children[i]) :
                        i \in 1..Len(info.children), j \in 1..P}
              /\ \A key \in DOMAIN gd.tasks : gd.tasks[key].name = key
              /\ Len(gd.links) = Cardinality(InnerLinks(info)) * P
              /\ \A k \in InnerLinks(info) : \A j \in 1..P :
                    gd.links[InnerBefore(info, k) * P + j] =
                        [from_node |-> Expanded(info.prefix[j], info.links[k].from_node),
                         to_node |-> Expanded(info.prefix[j], info.links[k].to_node),
                         from_socket |-> info.links[k].from_socket,
                         to_socket |-> info.links[k].to_socket]
              /\ \A m \in 1..Len(gd.links) :
                    /\ gd.links[m].from_node \in DOMAIN gd.tasks
                    /\ gd.links[m].to_node \in DOMAIN gd.tasks
              /\ node' = node
      ]_vars

\* an expansion with two prefixes, a link kept and a link dropped
C7_Witness ==
    /\ MapExpanded
    /\ Len(node.task_map_info[req.path[1]].prefix) = 2
    /\ Len(resp.body.content.graph_data.links) = 2
    /\ Len(node.task_map_info[req.path[1]].links) = 2
    /\ Cardinality(DOMAIN resp.body.content.graph_data.tasks) >= 3

-----------------------------------------------------------------------------
(* Properties of the exception handler and of the control endpoints *)

\* C5: index.html is served for the routes the API does not define; a 404
\* raised by an /api/... handler reaches the client as an HTTP 404 error and
\* not as index.html; an HTTP exception with another status code is passed to
\* the default handler unchanged.
C5_ApiNotFoundIsNotIndexHtml ==
    (pc = "done" /\ raised.kind = "http") =>
        IF raised.value.status_code # 404
        THEN resp = http_exception_handler(raised.value)
        ELSE IF req.endpoint = "route"
        THEN resp = IndexHtml
        ELSE /\ resp.status = 404
             /\ resp.media # "html"
             /\ resp.detail = raised.value.detail

\* the engine operation each control endpoint stands for
OwnOperation ==
    CASE req.endpoint = "tasks" /\ req.which = "pause" -> "pause_tasks"
      [] req.endpoint = "tasks" /\ req.which = "play" -> "play_tasks"
      [] req.endpoint = "tasks" /\ req.which = "kill" -> "kill_tasks"
      [] req.endpoint = "pause" -> "pause_processes"
      [] req.endpoint = "play" -> "play_processes"

ControlServed == pc = "done" /\ req.endpoint \in {"tasks", "pause", "play"}

\* C6: a control endpoint issues its own engine operation, once, with the
\* request's id and tasks (the loaded node for pause / play of a workgraph),
\* and nothing else; a task endpoint answers with the message the call
\* returned; an exception of load_node or of the call gives HTTP 500 with the
\* exception's text, and then no control operation but the own one was issued.
C6_OwnControlOperationOnce ==
    ControlServed =>
        /\ \A i \in 1..Len(calls) : calls[i].op = OwnOperation
        /\ Len(calls) <= 1
        /\ req.endpoint = "tasks" =>
              /\ calls = <<[op |-> OwnOperation, id |-> req.id, tasks |-> req.tasks]>>
              /\ ret.kind = "return" => resp = Ok([message |-> ret.text])
        /\ (req.endpoint # "tasks" /\ req.id = node.pk) =>
              calls = <<[op |-> OwnOperation, nodes |-> <<req.id>>]>>
        /\ (req.endpoint # "tasks" /\ req.id # node.pk) =>
              /\ calls = <<>>
              /\ resp.status = 500
              /\ resp.detail = NotExistentText
        /\ (Len(calls) = 1 /\ ret.kind = "return") => resp.status = 200
        /\ (Len(calls) = 1 /\ ret.kind = "raise") =>
              /\ resp.status = 500
              /\ resp.detail = ret.text

\* a kill of two tasks that the engine rejected
C6_Witness ==
    /\ ControlServed
    /\ req.endpoint = "tasks"
    /\ req.which = "kill"
    /\ Len(req.tasks.names) = 2
    /\ ret.kind = "raise"
    /\ resp.status = 500
    /\ calls[1].op = "kill_tasks"

====
